---- MODULE Spec2Model ----
(***************************************************************************)
(* Medical Report Analyzer: the report comparison / trend classification   *)
(* pipeline (Parameter Matcher -> Trend Classifier -> Aggregator) and the  *)
(* Compare page that renders its result.                                   *)
(*                                                                         *)
(* The matcher and classifier follow the comparison algorithm given in     *)
(* the project guide (src/unnamed/part_000, "Comparison Algorithm").  The  *)
(* repository's backend service (backend/services/compare_service.py) is   *)
(* not part of the source tree, so the numeric filter and the aggregator   *)
(* (counts, improvement_rate, health_score) follow the specification.      *)
(*                                                                         *)
(* Numbers: lab values are integers here.  A percentage is kept as the     *)
(* exact fraction num/den instead of a float, so that comparisons against  *)
(* the 5% threshold are exact.                                             *)
(*                                                                         *)
(* The frontend is modelled page by page, each with a specification of its *)
(* own over the shared variables: the Upload page (SpecUpload), the Signup *)
(* page and the password form of the Profile page (SpecForms), the         *)
(* AuthContext provider and the api instance with its interceptors         *)
(* (SpecAuth, SpecApi), the Compare page (SpecCompare) and the             *)
(* ReportDetails page (SpecDetails).  A handler with an await is two       *)
(* actions: up to the await, and the continuation for each outcome.        *)
(***************************************************************************)
EXTENDS Integers, Sequences, FiniteSets, TLC

VARIABLES
    old_report,     \* parameter list of the older report (baseline)
    new_report,     \* parameter list of the newer report (current)
    comparison,     \* response of the last comparison, or NoComparison
    reverse_comparison, \* response for the same reports with old and new swapped
    results,        \* aggregator input: a list of ComparisonResults
    summary,        \* aggregator output for `results`
    prev_score,     \* health_score of the list before the last edit
    last_op,        \* the last edit applied to `results`
    calls,          \* concurrent comparisons: reports, loop position, response
    acc,            \* the result list each running comparison builds
    file,           \* Upload page: the selected file, or NoFile
    reportType,     \* Upload page: the selected report type
    uploading,      \* Upload page: a request is being awaited
    success,        \* Upload page: the last request succeeded
    error,          \* Upload page: the displayed error message, or ""
    result,         \* Upload page: the data of the last successful request
    request,        \* the upload request in flight, or NoRequest
    timer,          \* the pending redirect timer, or NoTimer
    location,       \* the route the browser shows
    signup_page,    \* Signup page: formData, error, success, loading, pending redirect
    profile_page,   \* Profile page: passwords, error, success, showPasswordForm
    outbox,         \* the signup and change-password requests awaiting a response
    localStorage,   \* the browser's localStorage: the items 'token' and 'user'
    user,           \* AuthContext: the logged-in user, or NullUser
    token,          \* AuthContext: the access token, or NullToken
    auth_loading,   \* AuthContext: the stored session has not been loaded yet
    wire,           \* requests sent through the api instance that await their response
    settled,        \* the outcome of the request that settled last
    compare_page,   \* Compare page: reports, selected ids, comparison, loading, error
    compare_request, \* the comparison request in flight, or NoCompareRequest
    details_page,   \* ReportDetails page: reportId, report, loading, error
    fetches         \* the report ids of the fetchReport requests in flight

engineVars == <<old_report, new_report, comparison, reverse_comparison>>

aggVars == <<results, summary, prev_score, last_op>>

concVars == <<calls, acc>>

uploadVars ==
    <<file, reportType, uploading, success, error, result, request, timer, location>>

\* the Upload page's own state, without the route
uploadStateVars ==
    <<file, reportType, uploading, success, error, result, request, timer>>

formVars == <<signup_page, profile_page, outbox>>

sessionVars == <<localStorage, user, token, auth_loading, wire, settled>>

compareVars == <<compare_page, compare_request>>

detailVars == <<details_page, fetches>>

vars == <<engineVars, aggVars, concVars, uploadVars, formVars, sessionVars, compareVars, detailVars>>

\* what the steps of one part of the system leave alone
nonEngineVars == <<aggVars, concVars, uploadVars, formVars, sessionVars, compareVars, detailVars>>

nonAggVars == <<engineVars, concVars, uploadVars, formVars, sessionVars, compareVars, detailVars>>

nonConcVars == <<engineVars, aggVars, uploadVars, formVars, sessionVars, compareVars, detailVars>>

nonUploadVars == <<engineVars, aggVars, concVars, formVars, sessionVars, compareVars, detailVars>>

nonFormVars == <<engineVars, aggVars, concVars, uploadVars, sessionVars, compareVars, detailVars>>

nonSessionVars == <<engineVars, aggVars, concVars, uploadVars, formVars, compareVars, detailVars>>

nonCompareVars == <<engineVars, aggVars, concVars, uploadVars, formVars, sessionVars, detailVars>>

nonDetailVars == <<engineVars, aggVars, concVars, uploadVars, formVars, sessionVars, compareVars>>

----------------------------------------------------------------------------
(* Bounds of the model *)

\* most parameters in the two reports of one comparison, taken together
MaxParams == 3

\* longest result list handed to the aggregator
MaxResults == 4

\* parameter names: one lower_is_better, one higher_is_better, one unmapped
Names == {"Cholesterol", "Hemoglobin", "Vitamin D"}

\* numeric lab values: zero, a baseline, and changes from it of less than
\* 5%, of exactly 5% and of more
Values == {0, 100, 104, 105, 120}

----------------------------------------------------------------------------
(* Data model *)

\* a Parameter of a report; numeric = FALSE stands for a value that is
\* absent or fails numeric parsing (value is then meaningless and kept 0)
Parameter ==
    [name : Names, value : Values, numeric : {TRUE}]
        \cup [name : Names, value : {0}, numeric : {FALSE}]

\* all parameter lists of length at most n
RECURSIVE ReportsUpTo(_)
ReportsUpTo(n) ==
    IF n = 0 THEN {<<>>}
    ELSE LET shorter == ReportsUpTo(n - 1)
         IN  shorter \cup {Append(r, p) : r \in {s \in shorter : Len(s) = n - 1}, p \in Parameter}

Trends == {"improved", "worsened", "stable"}

Abs(x) == IF x < 0 THEN -x ELSE x

----------------------------------------------------------------------------
(* Parameter descriptions of the report page (display only) *)

\* the keys of the parameter description table, in the order of the table
parameterInfoKeys ==
    <<"GGTP FCC",
      "ALT (SGPT) IFCC without PSP",
      "AST (SGOT) IFCC without P5P",
      "Bilirubin Direct OPD",
      "AST : ALT Ratio",
      "Alkaline Phosphatase (ALP) FCC-AMP",
      "Total Protein",
      "Hemoglobin",
      "RBC",
      "WBC",
      "Platelets",
      "Total Cholesterol",
      "HDL",
      "LDL",
      "Triglycerides",
      "Creatinine",
      "BUN",
      "TSH",
      "T3",
      "T4",
      "Glucose",
      "HbA1c">>

\* the characters of the parameter names and of the table keys
Chars(name) ==
    CASE name = "GGTP FCC" -> <<"G", "G", "T", "P", " ", "F", "C", "C">>
      [] name = "ALT (SGPT) IFCC without PSP" -> <<"A", "L", "T", " ", "(", "S", "G", "P", "T", ")", " ", "I", "F", "C", "C", " ", "w", "i", "t", "h", "o", "u", "t", " ", "P", "S", "P">>
      [] name = "AST (SGOT) IFCC without P5P" -> <<"A", "S", "T", " ", "(", "S", "G", "O", "T", ")", " ", "I", "F", "C", "C", " ", "w", "i", "t", "h", "o", "u", "t", " ", "P", "5", "P">>
      [] name = "Bilirubin Direct OPD" -> <<"B", "i", "l", "i", "r", "u", "b", "i", "n", " ", "D", "i", "r", "e", "c", "t", " ", "O", "P", "D">>
      [] name = "AST : ALT Ratio" -> <<"A", "S", "T", " ", ":", " ", "A", "L", "T", " ", "R", "a", "t", "i", "o">>
      [] name = "Alkaline Phosphatase (ALP) FCC-AMP" -> <<"A", "l", "k", "a", "l", "i", "n", "e", " ", "P", "h", "o", "s", "p", "h", "a", "t", "a", "s", "e", " ", "(", "A", "L", "P", ")", " ", "F", "C", "C", "-", "A", "M", "P">>
      [] name = "Total Protein" -> <<"T", "o", "t", "a", "l", " ", "P", "r", "o", "t", "e", "i", "n">>
      [] name = "Hemoglobin" -> <<"H", "e", "m", "o", "g", "l", "o", "b", "i", "n">>
      [] name = "RBC" -> <<"R", "B", "C">>
      [] name = "WBC" -> <<"W", "B", "C">>
      [] name = "Platelets" -> <<"P", "l", "a", "t", "e", "l", "e", "t", "s">>
      [] name = "Total Cholesterol" -> <<"T", "o", "t", "a", "l", " ", "C", "h", "o", "l", "e", "s", "t", "e", "r", "o", "l">>
      [] name = "HDL" -> <<"H", "D", "L">>
      [] name = "LDL" -> <<"L", "D", "L">>
      [] name = "Triglycerides" -> <<"T", "r", "i", "g", "l", "y", "c", "e", "r", "i", "d", "e", "s">>
      [] name = "Creatinine" -> <<"C", "r", "e", "a", "t", "i", "n", "i", "n", "e">>
      [] name = "BUN" -> <<"B", "U", "N">>
      [] name = "TSH" -> <<"T", "S", "H">>
      [] name = "T3" -> <<"T", "3">>
      [] name = "T4" -> <<"T", "4">>
      [] name = "Glucose" -> <<"G", "l", "u", "c", "o", "s", "e">>
      [] name = "HbA1c" -> <<"H", "b", "A", "1", "c">>
      [] name = "Cholesterol" -> <<"C", "h", "o", "l", "e", "s", "t", "e", "r", "o", "l">>
      [] name = "Vitamin D" -> <<"V", "i", "t", "a", "m", "i", "n", " ", "D">>
      [] name = "hemoglobin" -> <<"h", "e", "m", "o", "g", "l", "o", "b", "i", "n">>

LowerChar(ch) ==
    CASE ch = "A" -> "a"
      [] ch = "B" -> "b"
      [] ch = "C" -> "c"
      [] ch = "D" -> "d"
      [] ch = "E" -> "e"
      [] ch = "F" -> "f"
      [] ch = "G" -> "g"
      [] ch = "H" -> "h"
      [] ch = "I" -> "i"
      [] ch = "J" -> "j"
      [] ch = "K" -> "k"
      [] ch = "L" -> "l"
      [] ch = "M" -> "m"
      [] ch = "N" -> "n"
      [] ch = "O" -> "o"
      [] ch = "P" -> "p"
      [] ch = "Q" -> "q"
      [] ch = "R" -> "r"
      [] ch = "S" -> "s"
      [] ch = "T" -> "t"
      [] ch = "U" -> "u"
      [] ch = "V" -> "v"
      [] ch = "W" -> "w"
      [] ch = "X" -> "x"
      [] ch = "Y" -> "y"
      [] ch = "Z" -> "z"
      [] OTHER -> ch

\* String.prototype.toLowerCase
toLowerCase(s) == [i \in 1..Len(s) |-> LowerChar(s[i])]

\* s.split(' ')[0]: the characters before the first space
RECURSIVE FirstWord(_)
FirstWord(s) ==
    IF s = <<>> \/ Head(s) = " " THEN <<>>
    ELSE <<Head(s)>> \o FirstWord(Tail(s))

\* String.prototype.includes
includes(s, sub) ==
    \E i \in 0..(Len(s) - Len(sub)) : SubSeq(s, i + 1, i + Len(sub)) = sub

\* the test of the lookup loop: the name contains the first word of the key,
\* or the key contains the first word of the name (both in lower case)
FuzzyMatch(paramName, key) ==
    LET searchTerms == toLowerCase(Chars(paramName))
        lowerKey    == toLowerCase(Chars(key))
    IN  \/ includes(searchTerms, FirstWord(lowerKey))
        \/ includes(lowerKey, FirstWord(searchTerms))

\* the table entry whose description is shown for a parameter name:
\* the entry of that very key, else the first entry that matches fuzzily,
\* else the generic description
getParameterInfo(paramName) ==
    LET keys == {parameterInfoKeys[i] : i \in 1..Len(parameterInfoKeys)}
        hits == {i \in 1..Len(parameterInfoKeys) : FuzzyMatch(paramName, parameterInfoKeys[i])}
    IN  IF paramName \in keys THEN paramName
        ELSE IF hits # {} THEN parameterInfoKeys[CHOOSE i \in hits : \A j \in hits : i <= j]
        ELSE "generic"

\* the tooltip of a row of the report table
Tooltip(value) == getParameterInfo(value.name)

----------------------------------------------------------------------------
(* Parameter Matcher *)

\* mutant: no parameter is filtered out
AllParameters(report) == report

\* the parameters of a report whose value parses as a number
NumericParameters(report) == SelectSeq(report, LAMBDA p : p.numeric)

\* mutant: falls back to the first old parameter when no name matches
find_parameter_or_first(old, name) ==
    IF old = <<>> THEN 0
    ELSE LET hits == {i \in 1..Len(old) : old[i].name = name}
         IN  IF hits = {} THEN 1 ELSE CHOOSE i \in hits : \A j \in hits : i <= j

\* mutant: the fuzzy lookup of the descriptions is reused for the pairing
find_parameter_fuzzy(old, name) ==
    LET hits == {i \in 1..Len(old) :
                    \/ old[i].name = name
                    \/ FuzzyMatch(name, old[i].name)}
    IN  IF hits = {} THEN 0 ELSE CHOOSE i \in hits : \A j \in hits : i <= j

\* index in `old` of the first parameter named `name`, 0 when there is none
RECURSIVE find_parameter_in_old_report(_, _)
find_parameter_in_old_report(old, name) ==
    IF old = <<>> THEN 0
    ELSE IF Head(old).name = name THEN 1
    ELSE LET i == find_parameter_in_old_report(Tail(old), name)
         IN  IF i = 0 THEN 0 ELSE i + 1

----------------------------------------------------------------------------
(* Trend Classifier *)

\* directionality: names for which a lower value is the healthier one
LowerIsBetter == {"Cholesterol"}

\* names for which a higher value is the healthier one
HigherIsBetter == {"Hemoglobin"}

parameter_improves_when_lower(name) == name \in LowerIsBetter

\* changes below this many percent are noise
StabilityThreshold == 5

\* mutant: the change is divided by the new value
ChangePercentageOfNew(change, old_value) ==
    [num |-> change * 100, den |-> old_value + change]

\* change_percentage = (change / old_value) * 100, as the fraction num/den
ChangePercentage(change, old_value) == [num |-> change * 100, den |-> old_value]

\* abs(change_percentage) < 5, for a fraction with den # 0
BelowThreshold(pct) == Abs(pct.num) < StabilityThreshold * Abs(pct.den)

\* mutant: the polarity of the parameter is ignored
DirectionTrendHigherOnly(name, change) ==
    IF change > 0 THEN "improved" ELSE "worsened"

\* mutant: a name outside the table gets no direction
DirectionTrendUnknownUnmapped(name, change) ==
    IF name \in LowerIsBetter
    THEN IF change < 0 THEN "improved" ELSE "worsened"
    ELSE IF name \in HigherIsBetter
         THEN IF change > 0 THEN "improved" ELSE "worsened"
         ELSE "unknown"

\* trend by direction of the change against the parameter's polarity;
\* every name that is not lower_is_better takes the other branch
DirectionTrend(name, change) ==
    IF parameter_improves_when_lower(name)
    THEN IF change < 0 THEN "improved" ELSE "worsened"
    ELSE IF change > 0 THEN "improved" ELSE "worsened"

\* mutant: an unchanged value gets no trend at all
TrendNullWhenUnchanged(name, change, pct) ==
    IF change = 0 THEN "null"
    ELSE IF BelowThreshold(pct) THEN "stable" ELSE DirectionTrend(name, change)

\* mutant: a small change is labelled "unchanged", which no counter tallies
TrendUnchangedLabel(name, change, pct) ==
    IF BelowThreshold(pct) THEN "unchanged" ELSE DirectionTrend(name, change)

\* mutant: the direction wins over the threshold whenever the value moved
TrendDirectionFirst(name, change, pct) ==
    IF change # 0 THEN DirectionTrend(name, change) ELSE "stable"

\* the direction is decided first, the stability threshold overrides it
Trend(name, change, pct) ==
    IF BelowThreshold(pct) THEN "stable" ELSE DirectionTrend(name, change)

\* one ComparisonResult for a matched pair with old_value # 0
ComparisonResult(name, old_value, new_value) ==
    LET change == new_value - old_value
        pct    == ChangePercentage(change, old_value)
    IN  [parameter_name    |-> name,
         old_value         |-> old_value,
         new_value         |-> new_value,
         change            |-> change,
         change_percentage |-> pct,
         trend             |-> Trend(name, change, pct)]

\* the loop over the new report.  A matched pair with old_value = 0 makes
\* change / old_value raise (ZeroDivisionError) and the whole loop fails.
RECURSIVE CompareLoop(_, _)
CompareLoop(old, new) ==
    IF new = <<>> THEN [failed |-> FALSE, comparisons |-> <<>>]
    ELSE LET p == Head(new)
             i == find_parameter_in_old_report(old, p.name)
         IN  IF i = 0 THEN CompareLoop(old, Tail(new))
             ELSE IF old[i].value = 0 THEN [failed |-> TRUE, comparisons |-> <<>>]
             ELSE LET rest == CompareLoop(old, Tail(new))
                  IN  IF rest.failed THEN rest
                      ELSE [failed |-> FALSE,
                            comparisons |->
                                <<ComparisonResult(p.name, old[i].value, p.value)>>
                                    \o rest.comparisons]

----------------------------------------------------------------------------
(* Aggregator *)

Count(comparisons, t) == Len(SelectSeq(comparisons, LAMBDA c : c.trend = t))

\* mutant: the share is not scaled to a percentage
ImprovementRateAsShare(improved, total) ==
    IF total = 0 THEN [num |-> 0, den |-> 1]
    ELSE [num |-> improved, den |-> total]

\* improved / total_parameters * 100 as a fraction, 0 when nothing was compared
ImprovementRate(improved, total) ==
    IF total = 0 THEN [num |-> 0, den |-> 1]
    ELSE [num |-> improved * 100, den |-> total]

\* health_score of an empty or all-stable comparison
NeutralScore == 50

\* mutant: the score is the improvement percentage
HealthScoreAsRate(improved, worsened, total) ==
    IF total = 0 THEN 50 ELSE (improved * 100) \div total

\* mutant: the signs of the improved and worsened shares are swapped
HealthScoreSignSlip(improved, worsened, total) ==
    IF total = 0 THEN 50 ELSE (50 * (total - improved + worsened)) \div total

\* 0..100: the neutral value moved up by the improved share and down by the
\* worsened share (rounded down to a whole number)
HealthScore(improved, worsened, total) ==
    IF total = 0 THEN NeutralScore
    ELSE (NeutralScore * (total + improved - worsened)) \div total

Summary(comparisons) ==
    LET improved == Count(comparisons, "improved")
        worsened == Count(comparisons, "worsened")
        stable   == Count(comparisons, "stable")
        total    == Len(comparisons)
    IN  [total_parameters |-> total,
         improved         |-> improved,
         worsened         |-> worsened,
         stable           |-> stable,
         improvement_rate |-> ImprovementRate(improved, total),
         health_score     |-> HealthScore(improved, worsened, total)]

----------------------------------------------------------------------------
(* The comparison: matcher -> classifier -> aggregator *)

NoComparison == [status |-> "none"]

\* mutant: an empty overlap is answered with an error
CompareReportsRejectEmpty(old, new) ==
    LET loop == CompareLoop(NumericParameters(old), NumericParameters(new))
    IN  IF loop.failed \/ loop.comparisons = <<>> THEN [status |-> "error"]
        ELSE [status      |-> "ok",
              comparisons |-> loop.comparisons,
              summary     |-> Summary(loop.comparisons)]

CompareReports(old, new) ==
    LET loop == CompareLoop(NumericParameters(old), NumericParameters(new))
    IN  IF loop.failed THEN [status |-> "error"]
        ELSE [status      |-> "ok",
              comparisons |-> loop.comparisons,
              summary     |-> Summary(loop.comparisons)]

----------------------------------------------------------------------------
(* Compare page: the three result sections *)

\* the results listed under "Improved Parameters"
ImprovedSection(c) == SelectSeq(c.comparisons, LAMBDA r : r.trend = "improved")

\* the results listed under "Parameters Needing Attention"
WorsenedSection(c) == SelectSeq(c.comparisons, LAMBDA r : r.trend = "worsened")

\* the results listed under "Stable Parameters"
StableSection(c) == SelectSeq(c.comparisons, LAMBDA r : r.trend = "stable")

\* width in percent of the "Overall Improvement Rate" bar:
\* Math.max(0, Math.min(100, parseFloat(improvement_rate)))
ImprovementRateBarWidth(s) ==
    LET rate == s.improvement_rate
    IN  IF rate.num < 0 THEN [num |-> 0, den |-> 1]
        ELSE IF rate.num > 100 * rate.den THEN [num |-> 100, den |-> 1]
        ELSE rate

\* a / b as JavaScript computes it for counts: 0 / 0 is NaN, n / 0 is Infinity
Divide(a, b) ==
    IF b # 0 THEN [kind |-> "finite", num |-> a, den |-> b]
    ELSE IF a = 0 THEN [kind |-> "NaN"]
    ELSE [kind |-> "Infinity"]

\* the shares count / total_parameters that the charts are drawn from: the
\* three pie slices and bars, and the offset of the stable slice
ChartShares(s) ==
    {Divide(s.improved, s.total_parameters),
     Divide(s.worsened, s.total_parameters),
     Divide(s.stable, s.total_parameters),
     Divide(s.improved + s.worsened, s.total_parameters)}

----------------------------------------------------------------------------
(* Specification Spec: two reports are chosen and compared *)

NoSummary == [total_parameters |-> 0]

\* the aggregator on its own is not running
AggIdle ==
    /\ results = <<>>
    /\ summary = NoSummary
    /\ prev_score = 0
    /\ last_op = "none"

\* the callers of the comparison service
Calls == {1, 2}

\* no concurrent comparisons are running
ConcIdle ==
    /\ calls = [c \in Calls |-> [old |-> <<>>, new |-> <<>>, pos |-> 1, response |-> NoComparison]]
    /\ acc = [c \in Calls |-> <<>>]

NoFile == [type |-> "none", size |-> 0]

NoResult == [report_id |-> 0]

NoRequest == [file |-> NoFile, reportType |-> "none"]

NoTimer == 0

\* the Upload page as it is mounted
UploadIdle ==
    /\ file = NoFile
    /\ reportType = "blood_test"
    /\ uploading = FALSE
    /\ success = FALSE
    /\ error = ""
    /\ result = NoResult
    /\ request = NoRequest
    /\ timer = NoTimer
    /\ location = "/upload"

\* the Signup page and the Profile page as they are mounted, nothing awaited
FormsIdle ==
    /\ signup_page = [formData |-> [email |-> "", full_name |-> "",
                                    password |-> "", confirmPassword |-> ""],
                      error |-> "", success |-> FALSE, loading |-> FALSE,
                      redirect |-> FALSE]
    /\ profile_page = [passwords |-> [currentPassword |-> "", newPassword |-> "",
                                      confirmPassword |-> ""],
                       error |-> "", success |-> "", showPasswordForm |-> FALSE]
    /\ outbox = <<>>

\* JavaScript's null, for a user object and for a token string
NullUser == [null |-> TRUE]

NullToken == "null"

NothingSettled == [call |-> "none"]

\* the AuthProvider as it is constructed, with an empty localStorage
SessionIdle ==
    /\ localStorage = <<>>
    /\ user = NullUser
    /\ token = NullToken
    /\ auth_loading = TRUE
    /\ wire = <<>>
    /\ settled = NothingSettled

NoCompareRequest == [url |-> "none"]

\* useState(null) of the Compare page's comparison
NullComparison == [null |-> TRUE]

\* the Compare page as it is mounted, its reports not fetched yet
CompareIdle ==
    /\ compare_page = [reports |-> <<>>, oldReportId |-> "", newReportId |-> "",
                       comparison |-> NullComparison, loading |-> FALSE,
                       loadingReports |-> TRUE, error |-> ""]
    /\ compare_request = NoCompareRequest

\* useState(null) of the ReportDetails page's report
NullReport == [null |-> TRUE]

\* the ReportDetails page is not mounted
DetailsIdle ==
    /\ details_page = [reportId |-> "", report |-> NullReport, loading |-> TRUE,
                       error |-> ""]
    /\ fetches = <<>>

\* no reports are being compared
EngineIdle ==
    /\ old_report = <<>>
    /\ new_report = <<>>
    /\ comparison = NoComparison
    /\ reverse_comparison = NoComparison

Init ==
    /\ \E n \in 0..MaxParams :
         /\ old_report \in ReportsUpTo(n)
         /\ new_report \in ReportsUpTo(MaxParams - n)
    /\ comparison = NoComparison
    /\ reverse_comparison = NoComparison
    /\ AggIdle
    /\ ConcIdle
    /\ UploadIdle
    /\ FormsIdle
    /\ SessionIdle
    /\ CompareIdle
    /\ DetailsIdle

\* mutant: the non-numeric parameters are removed from the reports themselves
CompareFilteringInPlace ==
    /\ comparison = NoComparison
    /\ comparison' = CompareReports(old_report, new_report)
    /\ old_report' = NumericParameters(old_report)
    /\ new_report' = NumericParameters(new_report)
    /\ UNCHANGED <<reverse_comparison, nonEngineVars>>

\* GET /compare/{user_id}?old_report_id=X&new_report_id=Y
Compare ==
    /\ comparison = NoComparison
    /\ comparison' = CompareReports(old_report, new_report)
    /\ UNCHANGED <<old_report, new_report, reverse_comparison, nonEngineVars>>

\* the same request with the two report ids exchanged
CompareReversed ==
    /\ reverse_comparison = NoComparison
    /\ reverse_comparison' = CompareReports(new_report, old_report)
    /\ UNCHANGED <<old_report, new_report, comparison, nonEngineVars>>

Next ==
    \/ Compare
    \/ CompareReversed

Spec == Init /\ [][Next]_vars

----------------------------------------------------------------------------
(* Specification SpecNames: the comparison of reports whose parameter      *)
(* names resemble each other without being equal                           *)

\* names that the description lookup takes for one another
FuzzyNames == {"Cholesterol", "Total Cholesterol", "Hemoglobin", "hemoglobin"}

FuzzyParameter == [name : FuzzyNames, value : {100, 120}, numeric : {TRUE}]

RECURSIVE FuzzyReportsUpTo(_)
FuzzyReportsUpTo(n) ==
    IF n = 0 THEN {<<>>}
    ELSE LET shorter == FuzzyReportsUpTo(n - 1)
         IN  shorter \cup {Append(r, p) :
                              r \in {x \in shorter : Len(x) = n - 1}, p \in FuzzyParameter}

InitNames ==
    /\ \E n \in 0..MaxParams :
         /\ old_report \in FuzzyReportsUpTo(n)
         /\ new_report \in FuzzyReportsUpTo(MaxParams - n)
    /\ comparison = NoComparison
    /\ reverse_comparison = NoComparison
    /\ AggIdle
    /\ ConcIdle
    /\ UploadIdle
    /\ FormsIdle
    /\ SessionIdle
    /\ CompareIdle
    /\ DetailsIdle

SpecNames == InitNames /\ [][Next]_vars

----------------------------------------------------------------------------
(* Specification SpecAgg: the aggregator applied to a list of results that *)
(* is then edited one result at a time                                     *)

\* a result as the aggregator sees it: only the trend is read
RECURSIVE ResultListsUpTo(_)
ResultListsUpTo(n) ==
    IF n = 0 THEN {<<>>}
    ELSE LET shorter == ResultListsUpTo(n - 1)
         IN  shorter \cup {Append(r, [trend |-> t]) :
                              r \in {x \in shorter : Len(x) = n - 1}, t \in Trends}

InitAgg ==
    /\ results \in ResultListsUpTo(MaxResults)
    /\ summary = NoSummary
    /\ prev_score = 0
    /\ last_op = "none"
    /\ EngineIdle
    /\ ConcIdle
    /\ UploadIdle
    /\ FormsIdle
    /\ SessionIdle
    /\ CompareIdle
    /\ DetailsIdle

\* the aggregator consumes the full list of results
Aggregate ==
    /\ summary = NoSummary
    /\ summary' = Summary(results)
    /\ last_op' = "aggregate"
    /\ UNCHANGED <<results, prev_score, nonAggVars>>

\* one stable result becomes improved or worsened, the rest is unchanged
ReplaceStable(i, t) ==
    /\ summary # NoSummary
    /\ results[i].trend = "stable"
    /\ results' = [results EXCEPT ![i].trend = t]
    /\ prev_score' = summary.health_score
    /\ summary' = Summary(results')
    /\ last_op' = "stable_to_" \o t
    /\ UNCHANGED nonAggVars

\* one more result, the rest is unchanged
AppendResult(t) ==
    /\ summary # NoSummary
    /\ Len(results) < MaxResults
    /\ results' = Append(results, [trend |-> t])
    /\ prev_score' = summary.health_score
    /\ summary' = Summary(results')
    /\ last_op' = "append_" \o t
    /\ UNCHANGED nonAggVars

NextAgg ==
    \/ Aggregate
    \/ \E i \in 1..Len(results), t \in {"improved", "worsened"} : ReplaceStable(i, t)
    \/ \E t \in Trends : AppendResult(t)

SpecAgg == InitAgg /\ [][NextAgg]_vars

----------------------------------------------------------------------------
(* Specification SpecConc: two comparisons of different report pairs run   *)
(* at the same time, one loop iteration at a time                          *)

\* longest new report of a concurrent comparison
MaxConcParams == 2

\* the parameters of the reports compared concurrently
ConcParameter == [name : {"Cholesterol"}, value : {0, 100, 120}, numeric : {TRUE}]

RECURSIVE ConcReportsUpTo(_)
ConcReportsUpTo(n) ==
    IF n = 0 THEN {<<>>}
    ELSE LET shorter == ConcReportsUpTo(n - 1)
         IN  shorter \cup {Append(r, p) :
                              r \in {x \in shorter : Len(x) = n - 1}, p \in ConcParameter}

\* mutant: one result list shared by all calls
SharedAccumulator(c) == 1

\* the result list a call appends to: its own
Accumulator(c) == c

InitConc ==
    /\ calls \in [Calls -> [old : ConcReportsUpTo(1), new : ConcReportsUpTo(MaxConcParams),
                            pos : {1}, response : {NoComparison}]]
    /\ acc = [c \in Calls |-> <<>>]
    /\ EngineIdle
    /\ AggIdle
    /\ UploadIdle
    /\ FormsIdle
    /\ SessionIdle
    /\ CompareIdle
    /\ DetailsIdle

\* one iteration of the loop of call c over its new report
CallStep(c) ==
    LET old == NumericParameters(calls[c].old)
        new == NumericParameters(calls[c].new)
        pos == calls[c].pos
    IN  /\ calls[c].response = NoComparison
        /\ pos <= Len(new)
        /\ LET p == new[pos]
               i == find_parameter_in_old_report(old, p.name)
           IN  IF i = 0
               THEN /\ calls' = [calls EXCEPT ![c].pos = pos + 1]
                    /\ UNCHANGED acc
               ELSE IF old[i].value = 0
               THEN /\ calls' = [calls EXCEPT ![c].response = [status |-> "error"]]
                    /\ UNCHANGED acc
               ELSE /\ calls' = [calls EXCEPT ![c].pos = pos + 1]
                    /\ acc' = [acc EXCEPT ![Accumulator(c)] =
                                   Append(@, ComparisonResult(p.name, old[i].value, p.value))]
        /\ UNCHANGED nonConcVars

\* the loop of call c is over: the results are summarised and returned
CallReturn(c) ==
    /\ calls[c].response = NoComparison
    /\ calls[c].pos > Len(NumericParameters(calls[c].new))
    /\ calls' = [calls EXCEPT ![c].response =
                     [status      |-> "ok",
                      comparisons |-> acc[Accumulator(c)],
                      summary     |-> Summary(acc[Accumulator(c)])]]
    /\ UNCHANGED <<acc, nonConcVars>>

NextConc ==
    \/ \E c \in Calls : CallStep(c)
    \/ \E c \in Calls : CallReturn(c)

SpecConc == InitConc /\ [][NextConc]_vars

----------------------------------------------------------------------------
(* Specification SpecUpload: the Upload page *)

MaxFileSize == 10485760

validTypes == {"application/pdf", "image/png", "image/jpeg", "image/jpg"}

\* the files a user can pick or drop: MIME type and size in bytes
FileTypes == validTypes \cup {"text/plain"}

FileSizes == {1024, MaxFileSize, MaxFileSize + 1}

Files == [type : FileTypes, size : FileSizes]

ReportTypes == {"blood_test", "xray"}

ReportIds == {1, 2}

\* the messages a failed request can end in
Details == {"Upload failed: unsupported document"}

InitUpload ==
    /\ EngineIdle
    /\ AggIdle
    /\ ConcIdle
    /\ UploadIdle
    /\ FormsIdle
    /\ SessionIdle
    /\ CompareIdle
    /\ DetailsIdle

\* the file input: rendered while no file is selected, disabled while uploading
handleFileChange(selectedFile) ==
    /\ location = "/upload"
    /\ file = NoFile
    /\ ~uploading
    /\ IF selectedFile = NoFile
       THEN UNCHANGED <<file, error>>
       ELSE IF selectedFile.type \notin validTypes
       THEN /\ error' = "Invalid file type. Please upload PDF or image files."
            /\ UNCHANGED file
       ELSE IF selectedFile.size > MaxFileSize
       THEN /\ error' = "File size exceeds 10MB limit."
            /\ UNCHANGED file
       ELSE /\ file' = selectedFile
            /\ error' = ""
    /\ UNCHANGED <<reportType, uploading, success, result, request, timer, location>>
    /\ UNCHANGED nonUploadVars

\* the drop area: always rendered, never disabled
handleDrop(droppedFile) ==
    /\ location = "/upload"
    /\ IF droppedFile = NoFile
       THEN UNCHANGED <<file, error>>
       ELSE /\ file' = droppedFile
            /\ error' = ""
    /\ UNCHANGED <<reportType, uploading, success, result, request, timer, location>>
    /\ UNCHANGED nonUploadVars

\* the "Remove file" button: rendered while a file is selected
RemoveFile ==
    /\ location = "/upload"
    /\ file # NoFile
    /\ ~uploading
    /\ file' = NoFile
    /\ UNCHANGED <<reportType, uploading, success, error, result, request, timer, location>>
    /\ UNCHANGED nonUploadVars

setReportType(t) ==
    /\ location = "/upload"
    /\ ~uploading
    /\ reportType' = t
    /\ UNCHANGED <<file, uploading, success, error, result, request, timer, location>>
    /\ UNCHANGED nonUploadVars

\* handleSubmit up to its await; the submit button is disabled while no file
\* is selected, while uploading and after a success
handleSubmit ==
    /\ location = "/upload"
    /\ file # NoFile
    /\ ~uploading
    /\ ~success
    /\ IF file = NoFile
       THEN /\ error' = "Please select a file to upload"
            /\ UNCHANGED <<uploading, success, request>>
       ELSE /\ uploading' = TRUE
            /\ error' = ""
            /\ success' = FALSE
            /\ request' = [file |-> file, reportType |-> reportType]
    /\ UNCHANGED <<file, reportType, result, timer, location>>
    /\ UNCHANGED nonUploadVars

\* handleSubmit after its await: the request resolved with data
UploadSucceeds(report_id) ==
    /\ location = "/upload"
    /\ request # NoRequest
    /\ result' = [report_id |-> report_id]
    /\ success' = TRUE
    /\ timer' = report_id
    /\ uploading' = FALSE
    /\ request' = NoRequest
    /\ UNCHANGED <<file, reportType, error, location>>
    /\ UNCHANGED nonUploadVars

\* mutant: the redirect is scheduled in the `finally` block
UploadFailsRedirecting(detail) ==
    /\ location = "/upload"
    /\ request # NoRequest
    /\ error' = IF detail # "" THEN detail ELSE "Failed to upload and process report"
    /\ uploading' = FALSE
    /\ request' = NoRequest
    /\ timer' = 1
    /\ UNCHANGED <<file, reportType, success, result, location>>
    /\ UNCHANGED nonUploadVars

\* handleSubmit after its await: the request was rejected
UploadFails(detail) ==
    /\ location = "/upload"
    /\ request # NoRequest
    /\ error' = IF detail # "" THEN detail ELSE "Failed to upload and process report"
    /\ uploading' = FALSE
    /\ request' = NoRequest
    /\ UNCHANGED <<file, reportType, success, result, timer, location>>
    /\ UNCHANGED nonUploadVars

\* `/report/${data.report_id}`
ReportRoute(report_id) == IF report_id = 1 THEN "/report/1" ELSE "/report/2"

\* the redirect timer set after a success fires
Redirect ==
    /\ timer # NoTimer
    /\ location' = ReportRoute(timer)
    /\ timer' = NoTimer
    /\ UNCHANGED <<file, reportType, uploading, success, error, result, request>>
    /\ UNCHANGED nonUploadVars

NextUpload ==
    \/ \E f \in Files \cup {NoFile} : handleFileChange(f)
    \/ \E f \in Files \cup {NoFile} : handleDrop(f)
    \/ RemoveFile
    \/ \E t \in ReportTypes : setReportType(t)
    \/ handleSubmit
    \/ \E id \in ReportIds : UploadSucceeds(id)
    \/ \E d \in Details \cup {""} : UploadFails(d)
    \/ Redirect

SpecUpload == InitUpload /\ [][NextUpload]_vars

\* the same page with its timer: a timer set with setTimeout fires
SpecUploadLive == InitUpload /\ [][NextUpload]_vars /\ WF_vars(Redirect)

----------------------------------------------------------------------------
(* Specification SpecForms: the Signup page and the password form of the   *)
(* Profile page                                                            *)

MinPasswordLength == 6

\* what a user types into a password field
Passwords == {"", "12345", "123456", "abcdef"}

SignupFieldValues ==
    [email |-> {"", "asha@example.com"}, full_name |-> {"", "Asha"},
     password |-> Passwords, confirmPassword |-> Passwords]

PasswordFieldValues ==
    [currentPassword |-> {"", "old-pass"}, newPassword |-> Passwords,
     confirmPassword |-> Passwords]

\* most change-password requests awaited at a time
MaxPending == 2

\* the sequence s without its i-th element
RemoveAt(s, i) == SubSeq(s, 1, i - 1) \o SubSeq(s, i + 1, Len(s))

\* the route shown while another page of the application is open
UploadAway(route) ==
    /\ file = NoFile
    /\ reportType = "blood_test"
    /\ uploading = FALSE
    /\ success = FALSE
    /\ error = ""
    /\ result = NoResult
    /\ request = NoRequest
    /\ timer = NoTimer
    /\ location = route

InitForms ==
    /\ EngineIdle
    /\ AggIdle
    /\ ConcIdle
    /\ SessionIdle
    /\ CompareIdle
    /\ DetailsIdle
    /\ \E route \in {"/signup", "/profile"} : UploadAway(route)
    /\ FormsIdle

Signup_handleChange(name, value) ==
    /\ location = "/signup"
    /\ signup_page' = [signup_page EXCEPT !.formData[name] = value]
    /\ UNCHANGED <<profile_page, outbox>>
    /\ UNCHANGED nonFormVars

\* every input of the form is `required`; the submit button is disabled
\* while loading and after a success
SignupSubmittable ==
    /\ location = "/signup"
    /\ ~signup_page.loading
    /\ ~signup_page.success
    /\ \A name \in DOMAIN signup_page.formData : signup_page.formData[name] # ""

\* mutant: the length of the password is not validated
Signup_handleSubmitAnyLength ==
    /\ SignupSubmittable
    /\ LET formData == signup_page.formData
       IN  IF formData.password # formData.confirmPassword
           THEN /\ signup_page' = [signup_page EXCEPT !.error = "Passwords do not match",
                                                      !.success = FALSE]
                /\ UNCHANGED outbox
           ELSE /\ signup_page' = [signup_page EXCEPT !.error = "", !.success = FALSE,
                                                      !.loading = TRUE]
                /\ outbox' = Append(outbox,
                                    [url |-> "/auth/signup",
                                     data |-> [email |-> formData.email,
                                               full_name |-> formData.full_name,
                                               password |-> formData.password]])
    /\ UNCHANGED profile_page
    /\ UNCHANGED nonFormVars

\* handleSubmit of the Signup page up to its await
Signup_handleSubmit ==
    /\ SignupSubmittable
    /\ LET formData == signup_page.formData
       IN  IF formData.password # formData.confirmPassword
           THEN /\ signup_page' = [signup_page EXCEPT !.error = "Passwords do not match",
                                                      !.success = FALSE]
                /\ UNCHANGED outbox
           ELSE IF Len(formData.password) < MinPasswordLength
           THEN /\ signup_page' = [signup_page EXCEPT
                                      !.error = "Password must be at least 6 characters long",
                                      !.success = FALSE]
                /\ UNCHANGED outbox
           ELSE /\ signup_page' = [signup_page EXCEPT !.error = "", !.success = FALSE,
                                                      !.loading = TRUE]
                /\ outbox' = Append(outbox,
                                    [url |-> "/auth/signup",
                                     data |-> [email |-> formData.email,
                                               full_name |-> formData.full_name,
                                               password |-> formData.password]])
    /\ UNCHANGED profile_page
    /\ UNCHANGED nonFormVars

\* handleSubmit after its await: signup returned {success: true}
SignupSucceeds ==
    \E i \in 1..Len(outbox) :
        /\ outbox[i].url = "/auth/signup"
        /\ outbox' = RemoveAt(outbox, i)
        /\ signup_page' = [signup_page EXCEPT !.success = TRUE, !.redirect = TRUE,
                                              !.loading = FALSE]
        /\ UNCHANGED profile_page
        /\ UNCHANGED nonFormVars

\* handleSubmit after its await: signup returned {success: false, error}
SignupFails(detail) ==
    \E i \in 1..Len(outbox) :
        /\ outbox[i].url = "/auth/signup"
        /\ outbox' = RemoveAt(outbox, i)
        /\ signup_page' = [signup_page EXCEPT
                              !.error = IF detail # "" THEN detail ELSE "Signup failed",
                              !.loading = FALSE]
        /\ UNCHANGED profile_page
        /\ UNCHANGED nonFormVars

\* the timer set after a successful signup fires
SignupRedirect ==
    /\ signup_page.redirect
    /\ signup_page' = [signup_page EXCEPT !.redirect = FALSE]
    /\ location' = "/login"
    /\ UNCHANGED <<profile_page, outbox>>
    /\ UNCHANGED uploadStateVars
    /\ UNCHANGED <<engineVars, aggVars, concVars, sessionVars, compareVars, detailVars>>

\* the "Change Password" button of the Profile page
ShowPasswordForm ==
    /\ location = "/profile"
    /\ ~profile_page.showPasswordForm
    /\ profile_page' = [profile_page EXCEPT !.showPasswordForm = TRUE]
    /\ UNCHANGED <<signup_page, outbox>>
    /\ UNCHANGED nonFormVars

setPasswords(name, value) ==
    /\ location = "/profile"
    /\ profile_page.showPasswordForm
    /\ profile_page' = [profile_page EXCEPT !.passwords[name] = value]
    /\ UNCHANGED <<signup_page, outbox>>
    /\ UNCHANGED nonFormVars

NoPasswords == [currentPassword |-> "", newPassword |-> "", confirmPassword |-> ""]

\* the "Cancel" button of the password form
CancelPasswordForm ==
    /\ location = "/profile"
    /\ profile_page.showPasswordForm
    /\ profile_page' = [profile_page EXCEPT !.showPasswordForm = FALSE,
                                            !.passwords = NoPasswords]
    /\ UNCHANGED <<signup_page, outbox>>
    /\ UNCHANGED nonFormVars

\* the password form is rendered and every input of it is `required`
PasswordFormSubmittable ==
    /\ location = "/profile"
    /\ profile_page.showPasswordForm
    /\ \A name \in DOMAIN profile_page.passwords : profile_page.passwords[name] # ""

\* mutant: the confirmation is not compared with the new password
handleChangePasswordUnconfirmed ==
    /\ PasswordFormSubmittable
    /\ LET passwords == profile_page.passwords
       IN  IF Len(passwords.newPassword) < MinPasswordLength
           THEN /\ profile_page' = [profile_page EXCEPT
                                       !.error = "Password must be at least 6 characters long",
                                       !.success = ""]
                /\ UNCHANGED outbox
           ELSE /\ Len(outbox) < MaxPending
                /\ profile_page' = [profile_page EXCEPT !.error = "", !.success = ""]
                /\ outbox' = Append(outbox,
                                    [url |-> "/auth/change-password",
                                     data |-> [current_password |-> passwords.currentPassword,
                                               new_password |-> passwords.newPassword]])
    /\ UNCHANGED signup_page
    /\ UNCHANGED nonFormVars

\* handleChangePassword of the Profile page up to its await
handleChangePassword ==
    /\ PasswordFormSubmittable
    /\ LET passwords == profile_page.passwords
       IN  IF passwords.newPassword # passwords.confirmPassword
           THEN /\ profile_page' = [profile_page EXCEPT
                                       !.error = "New passwords do not match",
                                       !.success = ""]
                /\ UNCHANGED outbox
           ELSE IF Len(passwords.newPassword) < MinPasswordLength
           THEN /\ profile_page' = [profile_page EXCEPT
                                       !.error = "Password must be at least 6 characters long",
                                       !.success = ""]
                /\ UNCHANGED outbox
           ELSE /\ Len(outbox) < MaxPending
                /\ profile_page' = [profile_page EXCEPT !.error = "", !.success = ""]
                /\ outbox' = Append(outbox,
                                    [url |-> "/auth/change-password",
                                     data |-> [current_password |-> passwords.currentPassword,
                                               new_password |-> passwords.newPassword]])
    /\ UNCHANGED signup_page
    /\ UNCHANGED nonFormVars

\* handleChangePassword after its await: the request resolved
ChangePasswordSucceeds ==
    \E i \in 1..Len(outbox) :
        /\ outbox[i].url = "/auth/change-password"
        /\ outbox' = RemoveAt(outbox, i)
        /\ profile_page' = [profile_page EXCEPT
                               !.success = "Password changed successfully",
                               !.showPasswordForm = FALSE,
                               !.passwords = NoPasswords]
        /\ UNCHANGED signup_page
        /\ UNCHANGED nonFormVars

\* handleChangePassword after its await: the request was rejected
ChangePasswordFails(detail) ==
    \E i \in 1..Len(outbox) :
        /\ outbox[i].url = "/auth/change-password"
        /\ outbox' = RemoveAt(outbox, i)
        /\ profile_page' = [profile_page EXCEPT
                               !.error = IF detail # "" THEN detail
                                         ELSE "Failed to change password"]
        /\ UNCHANGED signup_page
        /\ UNCHANGED nonFormVars

\* the messages a rejected request can carry
FormDetails == {"", "Email already registered", "Current password is incorrect"}

NextForms ==
    \/ \E name \in DOMAIN SignupFieldValues :
           \E value \in SignupFieldValues[name] : Signup_handleChange(name, value)
    \/ Signup_handleSubmit
    \/ SignupSucceeds
    \/ \E d \in FormDetails : SignupFails(d)
    \/ SignupRedirect
    \/ ShowPasswordForm
    \/ \E name \in DOMAIN PasswordFieldValues :
           \E value \in PasswordFieldValues[name] : setPasswords(name, value)
    \/ CancelPasswordForm
    \/ handleChangePassword
    \/ ChangePasswordSucceeds
    \/ \E d \in FormDetails : ChangePasswordFails(d)

SpecForms == InitForms /\ [][NextForms]_vars

----------------------------------------------------------------------------
(* Specifications SpecAuth and SpecApi: the AuthContext provider and the   *)
(* api instance with its request and response interceptors                 *)

\* most requests awaiting their response at a time
MaxInFlight == 2

\* a property that a response does not carry
Undefined == "undefined"

\* f with key k set to v, and f without key k (objects, headers, storage)
Put(f, k, v) == [x \in DOMAIN f \cup {k} |-> IF x = k THEN v ELSE f[x]]

Drop(f, k) == [x \in DOMAIN f \ {k} |-> f[x]]

\* JSON.stringify leaves out the properties that are undefined
JSON_stringify(obj) ==
    [json |-> [k \in {x \in DOMAIN obj : obj[x] # Undefined} |-> obj[k]]]

JSON_parse(text) == text.json

\* `Bearer ${token}`
Bearer(t) == [scheme |-> "Bearer", credentials |-> t]

\* the characters of the URLs the api service requests
UrlChars(url) ==
    CASE url = "/auth/login" ->
        <<"/", "a", "u", "t", "h", "/", "l", "o", "g", "i", "n">>
      [] url = "/auth/signup" ->
        <<"/", "a", "u", "t", "h", "/", "s", "i", "g", "n", "u", "p">>
      [] url = "/auth/google-login" ->
        <<"/", "a", "u", "t", "h", "/", "g", "o", "o", "g", "l", "e", "-", "l", "o", "g", "i", "n">>
      [] url = "/auth/profile" ->
        <<"/", "a", "u", "t", "h", "/", "p", "r", "o", "f", "i", "l", "e">>
      [] url = "/auth/change-password" ->
        <<"/", "a", "u", "t", "h", "/", "c", "h", "a", "n", "g", "e", "-", "p", "a", "s", "s", "w", "o", "r", "d">>
      [] url = "/compare/1" ->
        <<"/", "c", "o", "m", "p", "a", "r", "e", "/", "1">>

\* localStorage.getItem('token') is taken as true by an `if`: the item is
\* there and is not the empty string
storedToken == "token" \in DOMAIN localStorage /\ localStorage["token"] # ""

\* the same for the item 'user'; a JSON text is never the empty string
storedUser == "user" \in DOMAIN localStorage

\* the default headers of the axios instance
DefaultHeaders == [h \in {"Content-Type"} |-> "application/json"]

\* mutant: the token is taken from the AuthContext state
requestInterceptorFromState(config) ==
    IF token # NullToken
    THEN [config EXCEPT !.headers = Put(config.headers, "Authorization", Bearer(token))]
    ELSE config

\* api.interceptors.request
requestInterceptor(config) ==
    IF storedToken
    THEN [config EXCEPT !.headers = Put(config.headers, "Authorization",
                                        Bearer(localStorage["token"]))]
    ELSE config

\* mutant: only the login URL counts as an authentication request
isAuthRequestLoginOnly(url) ==
    includes(UrlChars(url), UrlChars("/auth/login"))

\* isAuthRequest of the response interceptor
isAuthRequest(url) ==
    \/ includes(UrlChars(url), UrlChars("/auth/login"))
    \/ includes(UrlChars(url), UrlChars("/auth/signup"))
    \/ includes(UrlChars(url), UrlChars("/auth/google-login"))

\* a request made through the api instance: the request interceptor runs,
\* then the request awaits its response
Send(url, call, email) ==
    /\ ~auth_loading
    /\ Len(wire) < MaxInFlight
    /\ wire' = Append(wire, requestInterceptor([url |-> url, headers |-> DefaultHeaders,
                                                call |-> call, email |-> email]))
    /\ UNCHANGED <<localStorage, user, token, auth_loading, settled>>
    /\ UNCHANGED nonSessionVars

Emails == {"asha@example.com"}

\* the bodies of successful responses to login and googleLogin
Responses ==
    {[access_token |-> "tokA", user_id |-> "u1", email |-> "asha@example.com",
      full_name |-> "Asha"],
     [access_token |-> "tokB", user_id |-> "u2", email |-> Undefined,
      full_name |-> Undefined]}

\* failed requests: the HTTP status (0: no response at all) and the detail
Failures ==
    {[status |-> 401, detail |-> "Could not validate credentials"],
     [status |-> 500, detail |-> Undefined],
     [status |-> 0, detail |-> Undefined]}

StoredSession ==
    Put(Put(<<>>, "token", "tokA"), "user",
        JSON_stringify([user_id |-> "u1", email |-> "asha@example.com", name |-> "Asha"]))

InitApi ==
    /\ EngineIdle
    /\ AggIdle
    /\ ConcIdle
    /\ CompareIdle
    /\ DetailsIdle
    /\ UploadAway("/dashboard")
    /\ FormsIdle
    /\ localStorage \in {<<>>, StoredSession}
    /\ user = NullUser
    /\ token = NullToken
    /\ auth_loading = TRUE
    /\ wire = <<>>
    /\ settled = NothingSettled

\* mutant: the stored token is loaded even when no user is stored with it
AuthProvider_loadTokenOnly ==
    /\ auth_loading
    /\ IF storedToken
       THEN /\ token' = localStorage["token"]
            /\ user' = NullUser
       ELSE UNCHANGED <<token, user>>
    /\ auth_loading' = FALSE
    /\ UNCHANGED <<localStorage, wire, settled>>
    /\ UNCHANGED nonSessionVars

\* the effect of AuthProvider that runs on mount
AuthProvider_load ==
    /\ auth_loading
    /\ IF storedToken /\ storedUser
       THEN /\ token' = localStorage["token"]
            /\ user' = JSON_parse(localStorage["user"])
       ELSE UNCHANGED <<token, user>>
    /\ auth_loading' = FALSE
    /\ UNCHANGED <<localStorage, wire, settled>>
    /\ UNCHANGED nonSessionVars

\* the calls of AuthContext up to their await
login(email) == Send("/auth/login", "login", email)

googleLogin == Send("/auth/google-login", "googleLogin", Undefined)

signup(email) == Send("/auth/signup", "signup", email)

\* requests of the pages
getProfile == Send("/auth/profile", "getProfile", Undefined)

compareReports == Send("/compare/1", "compareReports", Undefined)

\* mutant: logout forgets the stored session
logoutStateOnly ==
    /\ ~auth_loading
    /\ token' = NullToken
    /\ user' = NullUser
    /\ UNCHANGED <<localStorage, auth_loading, wire, settled>>
    /\ UNCHANGED nonSessionVars

logout ==
    /\ ~auth_loading
    /\ localStorage' = Drop(Drop(localStorage, "token"), "user")
    /\ token' = NullToken
    /\ user' = NullUser
    /\ UNCHANGED <<auth_loading, wire, settled>>
    /\ UNCHANGED nonSessionVars

AuthCalls == {"login", "googleLogin", "signup"}

\* userData of login and googleLogin
UserData(req, response) ==
    [user_id |-> response.user_id,
     email   |-> IF req.call = "login" /\ response.email \in {Undefined, ""}
                 THEN req.email ELSE response.email,
     name    |-> response.full_name]

\* the response interceptor passes a response on; login and googleLogin
\* store the session, signup and the pages only return
RespondOk(i, response) ==
    /\ i \in 1..Len(wire)
    /\ wire' = RemoveAt(wire, i)
    /\ LET req == wire[i]
       IN  /\ IF req.call \in {"login", "googleLogin"}
              THEN /\ localStorage' =
                          Put(Put(localStorage, "token", response.access_token),
                              "user", JSON_stringify(UserData(req, response)))
                   /\ token' = response.access_token
                   /\ user' = UserData(req, response)
              ELSE UNCHANGED <<localStorage, token, user>>
           /\ settled' = IF req.call \in AuthCalls
                         THEN [call |-> req.call, url |-> req.url, status |-> 200,
                               api |-> "resolved",
                               returned |-> [success |-> TRUE, error |-> Undefined]]
                         ELSE [call |-> req.call, url |-> req.url, status |-> 200,
                               api |-> "resolved"]
    /\ UNCHANGED auth_loading
    /\ UNCHANGED nonSessionVars

\* error.response?.data?.detail || fallback
DetailOr(failure, fallback) ==
    IF failure.detail \in {Undefined, ""} THEN fallback ELSE failure.detail

Fallback(call) ==
    CASE call = "login" -> "Login failed"
      [] call = "googleLogin" -> "Google login failed"
      [] call = "signup" -> "Signup failed"

\* mutant: the context lets the error of a failed call through
AuthContextCatchRethrowing(req, failure) ==
    [call |-> req.call, url |-> req.url, status |-> failure.status, api |-> "rejected",
     thrown |-> failure.status]

\* the catch blocks of signup, login and googleLogin
AuthContextCatch(req, failure) ==
    [call |-> req.call, url |-> req.url, status |-> failure.status, api |-> "rejected",
     returned |-> [success |-> FALSE, error |-> DetailOr(failure, Fallback(req.call))]]

\* the response interceptor on an error, then the caller's catch block
RespondError(i, failure) ==
    /\ i \in 1..Len(wire)
    /\ wire' = RemoveAt(wire, i)
    /\ LET req == wire[i]
       IN  /\ IF failure.status = 401 /\ ~isAuthRequest(req.url)
              THEN /\ localStorage' = Drop(Drop(localStorage, "token"), "user")
                   /\ location' = "/login"
              ELSE UNCHANGED <<localStorage, location>>
           /\ settled' = IF req.call \in AuthCalls
                         THEN AuthContextCatch(req, failure)
                         ELSE [call |-> req.call, url |-> req.url,
                               status |-> failure.status, api |-> "rejected"]
    /\ UNCHANGED <<user, token, auth_loading>>
    /\ UNCHANGED uploadStateVars
    /\ UNCHANGED <<engineVars, aggVars, concVars, formVars, compareVars, detailVars>>

NextAuth ==
    \/ AuthProvider_load
    \/ \E email \in Emails : login(email)
    \/ googleLogin
    \/ \E email \in Emails : signup(email)
    \/ logout
    \/ \E i \in 1..MaxInFlight : \E response \in Responses : RespondOk(i, response)
    \/ \E i \in 1..MaxInFlight : \E failure \in Failures : RespondError(i, failure)

\* the AuthContext on its own: the calls it offers and their responses
SpecAuth == InitApi /\ [][NextAuth]_vars

NextApi ==
    \/ AuthProvider_load
    \/ \E email \in Emails : login(email)
    \/ googleLogin
    \/ \E email \in Emails : signup(email)
    \/ logout
    \/ getProfile
    \/ compareReports
    \/ \E i \in 1..MaxInFlight : \E response \in Responses : RespondOk(i, response)
    \/ \E i \in 1..MaxInFlight : \E failure \in Failures : RespondError(i, failure)

\* the api instance with every caller: the AuthContext and the pages
SpecApi == InitApi /\ [][NextApi]_vars

----------------------------------------------------------------------------
(* Specification SpecCompare: the Compare page *)

\* the report lists the backend can return, newest report first
ReportLists == {<<>>, <<"r1">>, <<"r2", "r1">>, <<"r3", "r2", "r1">>}

\* the ids of a report list
Ids(reports) == {reports[i] : i \in 1..Len(reports)}

InitCompare ==
    /\ EngineIdle
    /\ AggIdle
    /\ ConcIdle
    /\ DetailsIdle
    /\ UploadAway("/compare")
    /\ FormsIdle
    /\ SessionIdle
    /\ CompareIdle

\* fetchReports: the reports arrived; the two latest are selected
fetchReports(sortedReports) ==
    /\ location = "/compare"
    /\ compare_page.loadingReports
    /\ compare_page' =
           IF Len(sortedReports) >= 2
           THEN [compare_page EXCEPT !.reports = sortedReports,
                                     !.newReportId = sortedReports[1],
                                     !.oldReportId = sortedReports[2],
                                     !.loadingReports = FALSE]
           ELSE [compare_page EXCEPT !.reports = sortedReports,
                                     !.loadingReports = FALSE]
    /\ UNCHANGED compare_request
    /\ UNCHANGED nonCompareVars

\* fetchReports: the request failed
fetchReportsFails ==
    /\ location = "/compare"
    /\ compare_page.loadingReports
    /\ compare_page' = [compare_page EXCEPT !.error = "Failed to fetch reports",
                                            !.loadingReports = FALSE]
    /\ UNCHANGED compare_request
    /\ UNCHANGED nonCompareVars

\* the selects and the button are rendered once at least two reports are there
SelectionRendered ==
    /\ location = "/compare"
    /\ ~compare_page.loadingReports
    /\ Len(compare_page.reports) >= 2

setOldReportId(value) ==
    /\ SelectionRendered
    /\ value \in Ids(compare_page.reports) \cup {""}
    /\ compare_page' = [compare_page EXCEPT !.oldReportId = value]
    /\ UNCHANGED compare_request
    /\ UNCHANGED nonCompareVars

setNewReportId(value) ==
    /\ SelectionRendered
    /\ value \in Ids(compare_page.reports) \cup {""}
    /\ compare_page' = [compare_page EXCEPT !.newReportId = value]
    /\ UNCHANGED compare_request
    /\ UNCHANGED nonCompareVars

\* the button is disabled={!oldReportId || !newReportId || loading}
CompareButtonEnabled ==
    /\ SelectionRendered
    /\ compare_page.oldReportId # ""
    /\ compare_page.newReportId # ""
    /\ ~compare_page.loading

\* the user of the session, whose id the request carries
UserId == "u1"

\* mutant: the two ids are not compared with each other
handleCompareSameAllowed ==
    /\ CompareButtonEnabled
    /\ IF compare_page.oldReportId = "" \/ compare_page.newReportId = ""
       THEN /\ compare_page' = [compare_page EXCEPT
                                   !.error = "Please select two reports to compare"]
            /\ UNCHANGED compare_request
       ELSE /\ compare_page' = [compare_page EXCEPT !.loading = TRUE, !.error = ""]
            /\ compare_request' = [url |-> "/compare/", user_id |-> UserId,
                                   old_report_id |-> compare_page.oldReportId,
                                   new_report_id |-> compare_page.newReportId]
    /\ UNCHANGED nonCompareVars

\* handleCompare up to its await
handleCompare ==
    /\ CompareButtonEnabled
    /\ IF compare_page.oldReportId = "" \/ compare_page.newReportId = ""
       THEN /\ compare_page' = [compare_page EXCEPT
                                   !.error = "Please select two reports to compare"]
            /\ UNCHANGED compare_request
       ELSE IF compare_page.oldReportId = compare_page.newReportId
       THEN /\ compare_page' = [compare_page EXCEPT
                                   !.error = "Please select two different reports"]
            /\ UNCHANGED compare_request
       ELSE /\ compare_page' = [compare_page EXCEPT !.loading = TRUE, !.error = ""]
            /\ compare_request' = [url |-> "/compare/", user_id |-> UserId,
                                   old_report_id |-> compare_page.oldReportId,
                                   new_report_id |-> compare_page.newReportId]
    /\ UNCHANGED nonCompareVars

\* handleCompare after its await: the comparison of the two reports arrived
CompareSucceeds ==
    /\ compare_request # NoCompareRequest
    /\ compare_page' = [compare_page EXCEPT
                           !.comparison = [old_report_id |-> compare_request.old_report_id,
                                           new_report_id |-> compare_request.new_report_id],
                           !.loading = FALSE]
    /\ compare_request' = NoCompareRequest
    /\ UNCHANGED nonCompareVars

\* handleCompare after its await: the request was rejected
CompareFails(detail) ==
    /\ compare_request # NoCompareRequest
    /\ compare_page' = [compare_page EXCEPT
                           !.error = IF detail # "" THEN detail
                                     ELSE "Failed to compare reports",
                           !.loading = FALSE]
    /\ compare_request' = NoCompareRequest
    /\ UNCHANGED nonCompareVars

NextCompare ==
    \/ \E sortedReports \in ReportLists : fetchReports(sortedReports)
    \/ fetchReportsFails
    \/ \E value \in {"", "r1", "r2", "r3"} : setOldReportId(value)
    \/ \E value \in {"", "r1", "r2", "r3"} : setNewReportId(value)
    \/ handleCompare
    \/ CompareSucceeds
    \/ \E detail \in {"", "Report not found"} : CompareFails(detail)

SpecCompare == InitCompare /\ [][NextCompare]_vars

----------------------------------------------------------------------------
(* Specification SpecDetails: the ReportDetails page while its route       *)
(* parameter changes                                                       *)

\* most fetchReport requests in flight at a time
MaxFetches == 2

ReportIdsOfUser == {"r1", "r2", "r3"}

\* the page is mounted for a report; its effect has started the first fetch
InitDetails ==
    /\ EngineIdle
    /\ AggIdle
    /\ ConcIdle
    /\ UploadAway("/report/r1")
    /\ FormsIdle
    /\ SessionIdle
    /\ CompareIdle
    /\ details_page = [reportId |-> "r1", report |-> NullReport, loading |-> TRUE,
                       error |-> ""]
    /\ fetches = <<"r1">>

\* the route changes to another report: useParams yields the new reportId
\* and the effect with the dependency [reportId] calls fetchReport
ChangeReport(id) ==
    /\ id # details_page.reportId
    /\ Len(fetches) < MaxFetches
    /\ details_page' = [details_page EXCEPT !.reportId = id]
    /\ fetches' = Append(fetches, id)
    /\ UNCHANGED nonDetailVars

\* fetchReport after its await: the data of the requested report arrived
FetchSucceeds(i) ==
    /\ i \in 1..Len(fetches)
    /\ fetches' = RemoveAt(fetches, i)
    /\ details_page' = [details_page EXCEPT !.report = [report_id |-> fetches[i]],
                                            !.loading = FALSE]
    /\ UNCHANGED nonDetailVars

\* fetchReport after its await: the request was rejected
FetchFails(i) ==
    /\ i \in 1..Len(fetches)
    /\ fetches' = RemoveAt(fetches, i)
    /\ details_page' = [details_page EXCEPT !.error = "Failed to fetch report details",
                                            !.loading = FALSE]
    /\ UNCHANGED nonDetailVars

NextDetails ==
    \/ \E id \in ReportIdsOfUser : ChangeReport(id)
    \/ \E i \in 1..MaxFetches : FetchSucceeds(i)
    \/ \E i \in 1..MaxFetches : FetchFails(i)

SpecDetails == InitDetails /\ [][NextDetails]_vars

----------------------------------------------------------------------------
(* Properties *)

Compared == comparison.status = "ok"

Names_of(report) == {report[i].name : i \in 1..Len(report)}

\* the pairs (i, j) of numeric parameters of the same name
NumericPairs ==
    {ij \in (1..Len(old_report)) \X (1..Len(new_report)) :
        /\ old_report[ij[1]].numeric
        /\ new_report[ij[2]].numeric
        /\ old_report[ij[1]].name = new_report[ij[2]].name}

\* report without the parameters whose name is not in `keep`
Restrict(report, keep) == SelectSeq(report, LAMBDA p : p.name \in keep)

\* C1: in every summary a comparison returns, improved + worsened + stable
\* equals total_parameters.
C1_CountsSumToTotal ==
    Compared =>
        comparison.summary.improved + comparison.summary.worsened
            + comparison.summary.stable = comparison.summary.total_parameters

C1_Witness ==
    /\ Compared
    /\ comparison.summary.total_parameters = 2
    /\ comparison.summary.stable = 1
    /\ comparison.summary.worsened = 1

\* C2: every matched pair of numeric values, the pairs with old_value = 0
\* or change = 0 included, gets a ComparisonResult whose trend is one of
\* improved, worsened, stable.
C2_EveryMatchedPairHasTrend ==
    (comparison # NoComparison) =>
        \A j \in 1..Len(new_report) :
            (\E ij \in NumericPairs : ij[2] = j) =>
                /\ Compared
                /\ \E k \in 1..Len(comparison.comparisons) :
                       /\ comparison.comparisons[k].parameter_name = new_report[j].name
                       /\ comparison.comparisons[k].new_value = new_report[j].value
                       /\ comparison.comparisons[k].trend \in Trends

\* C2, for the results that are returned: each has a trend that is one of
\* improved, worsened, stable (also when the value did not change), so the
\* Compare page lists every result in exactly one of its three sections.
C2_ReturnedTrendIsOneOfThree ==
    Compared =>
        /\ \A k \in 1..Len(comparison.comparisons) :
               comparison.comparisons[k].trend \in Trends
        /\ Len(ImprovedSection(comparison)) + Len(WorsenedSection(comparison))
               + Len(StableSection(comparison)) = Len(comparison.comparisons)

C2_Witness ==
    /\ Compared
    /\ \E k \in 1..Len(comparison.comparisons) :
           /\ comparison.comparisons[k].change = 0
           /\ comparison.comparisons[k].trend = "stable"
           /\ Len(StableSection(comparison)) >= 1

\* C3: a result whose absolute change_percentage is below 5 has trend stable,
\* for every polarity of its parameter and either sign of the change.
C3_SmallChangeIsStable ==
    Compared =>
        \A k \in 1..Len(comparison.comparisons) :
            LET r == comparison.comparisons[k]
            IN  Abs(r.change * 100) < 5 * Abs(r.old_value) => r.trend = "stable"

C3_Witness ==
    /\ Compared
    /\ \E k \in 1..Len(comparison.comparisons) :
           LET r == comparison.comparisons[k]
           IN  /\ r.parameter_name \in LowerIsBetter
               /\ r.change > 0
               /\ Abs(r.change * 100) < 5 * Abs(r.old_value)
               /\ r.trend = "stable"

\* C4: a result whose absolute change_percentage is at least 5 is improved
\* when the value moved in the parameter's good direction and worsened when
\* it moved in the other (lower_is_better: down is good; higher_is_better:
\* up is good).
C4_DirectionDecidesLargeChange ==
    Compared =>
        \A k \in 1..Len(comparison.comparisons) :
            LET r == comparison.comparisons[k]
            IN  Abs(r.change * 100) >= 5 * Abs(r.old_value) =>
                  /\ (r.parameter_name \in LowerIsBetter /\ r.change < 0) => r.trend = "improved"
                  /\ (r.parameter_name \in LowerIsBetter /\ r.change > 0) => r.trend = "worsened"
                  /\ (r.parameter_name \in HigherIsBetter /\ r.change > 0) => r.trend = "improved"
                  /\ (r.parameter_name \in HigherIsBetter /\ r.change < 0) => r.trend = "worsened"

C4_Witness ==
    /\ Compared
    /\ \E k \in 1..Len(comparison.comparisons) :
           LET r == comparison.comparisons[k]
           IN  /\ r.parameter_name \in LowerIsBetter
               /\ r.old_value = 120
               /\ r.new_value = 100
               /\ r.trend = "improved"

\* C5: a result is listed only for a name present in both reports, and the
\* parameters present in one report only change nothing: the response
\* (status, results, total and counts) is the one obtained without them.
C5_OnlyCommonNames ==
    (comparison # NoComparison) =>
        LET common == Names_of(old_report) \cap Names_of(new_report)
        IN  /\ Compared =>
                \A k \in 1..Len(comparison.comparisons) :
                    comparison.comparisons[k].parameter_name \in common
            /\ comparison = CompareReports(Restrict(old_report, common),
                                           Restrict(new_report, common))

C5_Witness ==
    /\ Compared
    /\ Len(comparison.comparisons) = 1
    /\ Names_of(new_report) \ Names_of(old_report) # {}
    /\ comparison.summary.total_parameters = 1

\* C6: a parameter without a numeric value is never compared and never makes
\* the comparison fail: every result comes from a pair of numeric values,
\* and a failure is always due to a pair of numeric values.
C6_NonNumericExcluded ==
    /\ Compared =>
          /\ \A k \in 1..Len(comparison.comparisons) :
                 \E ij \in NumericPairs :
                     /\ old_report[ij[1]].name = comparison.comparisons[k].parameter_name
                     /\ old_report[ij[1]].value = comparison.comparisons[k].old_value
                     /\ new_report[ij[2]].value = comparison.comparisons[k].new_value
          /\ comparison.summary.total_parameters <= Cardinality(NumericPairs)
    /\ (comparison.status = "error") =>
          \E ij \in NumericPairs : old_report[ij[1]].value = 0

C6_Witness ==
    /\ Compared
    /\ Len(comparison.comparisons) = 1
    /\ \E j \in 1..Len(new_report) :
           /\ ~new_report[j].numeric
           /\ new_report[j].name \in Names_of(old_report)

\* C7: a matched pair with old_value = 0 still gets a ComparisonResult (no
\* division by zero), whose trend is stable when the value did not change
\* and follows the sign of the change against the polarity otherwise.
C7_ZeroOldValueHandled ==
    (comparison # NoComparison) =>
        \A ij \in NumericPairs :
            old_report[ij[1]].value = 0 =>
                /\ Compared
                /\ \E k \in 1..Len(comparison.comparisons) :
                       LET r == comparison.comparisons[k]
                       IN  /\ r.parameter_name = old_report[ij[1]].name
                           /\ r.old_value = 0
                           /\ r.trend = IF r.change = 0 THEN "stable"
                                        ELSE DirectionTrend(r.parameter_name, r.change)

\* C8: when the reports share no comparable parameter the comparison
\* succeeds with no results, all counts 0, improvement_rate 0 and the
\* neutral health_score.
C8_NoOverlapIsNeutral ==
    (comparison # NoComparison /\ NumericPairs = {}) =>
        /\ Compared
        /\ comparison.comparisons = <<>>
        /\ comparison.summary.total_parameters = 0
        /\ comparison.summary.improved = 0
        /\ comparison.summary.worsened = 0
        /\ comparison.summary.stable = 0
        /\ comparison.summary.improvement_rate.num = 0
        /\ comparison.summary.health_score = NeutralScore

C8_Witness ==
    /\ Compared
    /\ Len(old_report) >= 1
    /\ Len(new_report) >= 1
    /\ NumericPairs = {}
    /\ comparison.summary.total_parameters = 0
    /\ comparison.summary.health_score = NeutralScore

AllAre(t) ==
    /\ results # <<>>
    /\ \A k \in 1..Len(results) : results[k].trend = t

\* C9: health_score lies in 0..100; for a non-empty list it is 100 when all
\* results are improved, 0 when all are worsened and the neutral value,
\* whatever the length, when all are stable.
C9_HealthScoreRange ==
    (summary # NoSummary) =>
        /\ summary.health_score \in 0..100
        /\ AllAre("improved") => summary.health_score = 100
        /\ AllAre("worsened") => summary.health_score = 0
        /\ AllAre("stable") => summary.health_score = NeutralScore

C9_Witness ==
    /\ summary # NoSummary
    /\ AllAre("stable")
    /\ Len(results) = 3
    /\ summary.health_score = NeutralScore

\* C10: replacing one stable result by an improved one never decreases
\* health_score, replacing it by a worsened one never increases it.
C10_ReplaceStableMonotone ==
    /\ last_op = "stable_to_improved" => summary.health_score >= prev_score
    /\ last_op = "stable_to_worsened" => summary.health_score <= prev_score

C10_Witness ==
    /\ last_op = "stable_to_improved"
    /\ Len(results) = 3
    /\ summary.health_score > prev_score

\* C11: appending one improved result never decreases health_score,
\* appending one worsened result never increases it.
C11_AppendMonotone ==
    /\ last_op = "append_improved" => summary.health_score >= prev_score
    /\ last_op = "append_worsened" => summary.health_score <= prev_score

C11_Witness ==
    /\ last_op = "append_worsened"
    /\ Len(results) = 3
    /\ summary.health_score < prev_score

\* the numeric parameters of a report that carry the given name
Occurrences(report, name) ==
    Len(SelectSeq(report, LAMBDA p : p.numeric /\ p.name = name))

\* C12: when A as old against B as new classifies a lower_is_better
\* parameter X (listed once in each report) as improved, B as old against A
\* as new classifies X as worsened.
C12_ReverseIsWorsened ==
    (Compared /\ reverse_comparison # NoComparison) =>
        \A k \in 1..Len(comparison.comparisons) :
            LET r == comparison.comparisons[k]
            IN  (/\ r.parameter_name \in LowerIsBetter
                 /\ r.trend = "improved"
                 /\ Occurrences(old_report, r.parameter_name) = 1
                 /\ Occurrences(new_report, r.parameter_name) = 1) =>
                    /\ reverse_comparison.status = "ok"
                    /\ \E m \in 1..Len(reverse_comparison.comparisons) :
                           LET rr == reverse_comparison.comparisons[m]
                           IN  /\ rr.parameter_name = r.parameter_name
                               /\ rr.old_value = r.new_value
                               /\ rr.new_value = r.old_value
                               /\ rr.trend = "worsened"

\* C12, when the reverse comparison returns: the reverse result of X is
\* worsened.
C12_ReverseIsWorsenedWhenReturned ==
    (Compared /\ reverse_comparison.status = "ok") =>
        \A k \in 1..Len(comparison.comparisons) :
            LET r == comparison.comparisons[k]
            IN  (/\ r.parameter_name \in LowerIsBetter
                 /\ r.trend = "improved"
                 /\ Occurrences(old_report, r.parameter_name) = 1
                 /\ Occurrences(new_report, r.parameter_name) = 1) =>
                    \E m \in 1..Len(reverse_comparison.comparisons) :
                        LET rr == reverse_comparison.comparisons[m]
                        IN  /\ rr.parameter_name = r.parameter_name
                            /\ rr.old_value = r.new_value
                            /\ rr.new_value = r.old_value
                            /\ rr.trend = "worsened"

\* C13: every result has change = new_value - old_value and
\* change_percentage = change / old_value * 100 for the values of a pair of
\* the two reports; old 220 and new 180 give -40 and -18.18 percent.
C13_ChangeAndPercentage ==
    /\ Compared =>
          \A k \in 1..Len(comparison.comparisons) :
              LET r == comparison.comparisons[k]
              IN  /\ \E ij \in NumericPairs :
                         /\ old_report[ij[1]].name = r.parameter_name
                         /\ old_report[ij[1]].value = r.old_value
                         /\ new_report[ij[2]].value = r.new_value
                  /\ r.change = r.new_value - r.old_value
                  /\ r.old_value # 0
                  /\ r.change_percentage.den # 0
                  /\ r.change_percentage.num * r.old_value
                         = r.change * 100 * r.change_percentage.den
    /\ LET r == ComparisonResult("Cholesterol", 220, 180)
       IN  /\ r.change = -40
           /\ r.change_percentage.num * 11 = -200 * r.change_percentage.den
           /\ r.trend = "improved"

C13_Witness ==
    /\ Compared
    /\ \E k \in 1..Len(comparison.comparisons) :
           /\ comparison.comparisons[k].old_value = 100
           /\ comparison.comparisons[k].new_value = 120
           /\ comparison.comparisons[k].change = 20
           /\ comparison.comparisons[k].change_percentage = [num |-> 2000, den |-> 100]

\* the results of the comparison that carry the given name
ResultsNamed(name) ==
    Len(SelectSeq(comparison.comparisons, LAMBDA r : r.parameter_name = name))

C15_ImprovementRate ==
    (summary # NoSummary /\ summary.total_parameters > 0) =>
        LET rate == summary.improvement_rate
        IN  /\ rate.den > 0
            /\ rate.num * summary.total_parameters = summary.improved * 100 * rate.den
            /\ 0 <= rate.num
            /\ rate.num <= 100 * rate.den
            /\ ImprovementRateBarWidth(summary) = rate

C15_Witness ==
    /\ summary # NoSummary
    /\ summary.total_parameters = 3
    /\ summary.improved = 1
    /\ summary.improvement_rate = [num |-> 100, den |-> 3]

C18_UnmappedDefaultPolicy ==
    (comparison # NoComparison) =>
        /\ Compared =>
              \A k \in 1..Len(comparison.comparisons) :
                  LET r == comparison.comparisons[k]
                  IN  r.parameter_name \notin (LowerIsBetter \cup HigherIsBetter) =>
                          r.trend = IF Abs(r.change * 100) < 5 * Abs(r.old_value) THEN "stable"
                                    ELSE IF r.change > 0 THEN "improved" ELSE "worsened"
        /\ (\A ij \in NumericPairs : old_report[ij[1]].value # 0) => Compared

C18_Witness ==
    /\ Compared
    /\ \E k \in 1..Len(comparison.comparisons) :
           /\ comparison.comparisons[k].parameter_name = "Vitamin D"
           /\ comparison.comparisons[k].change < 0
           /\ comparison.comparisons[k].trend = "worsened"

C20_SelectedFileIsAllowed ==
    file # NoFile => (file.type \in validTypes /\ file.size <= MaxFileSize)

\* C20: the same for the file of a request that handleSubmit has sent
C20_SentFileIsAllowed ==
    request # NoRequest =>
        (request.file.type \in validTypes /\ request.file.size <= MaxFileSize)

\* the new password of a form has at least 6 characters and equals its
\* confirmation
PasswordAccepted(password, confirmation) ==
    /\ password = confirmation
    /\ Len(password) >= MinPasswordLength

\* C21: Signup.handleSubmit and Profile.handleChangePassword send a request
\* only when the new password has at least 6 characters and equals its
\* confirmation; otherwise they set an error message and send nothing.
C21_RequestOnlyForAcceptedPassword ==
    [][/\ Signup_handleSubmit =>
            IF PasswordAccepted(signup_page.formData.password,
                                signup_page.formData.confirmPassword)
            THEN /\ Len(outbox') = Len(outbox) + 1
                 /\ outbox'[Len(outbox')].data.password = signup_page.formData.password
            ELSE signup_page'.error # "" /\ outbox' = outbox
       /\ handleChangePassword =>
            IF PasswordAccepted(profile_page.passwords.newPassword,
                                profile_page.passwords.confirmPassword)
            THEN /\ Len(outbox') = Len(outbox) + 1
                 /\ outbox'[Len(outbox')].data.new_password
                        = profile_page.passwords.newPassword
            ELSE profile_page'.error # "" /\ outbox' = outbox
       /\ Len(outbox') > Len(outbox) =>
            \/ /\ outbox'[Len(outbox')].url = "/auth/signup"
               /\ PasswordAccepted(signup_page.formData.password,
                                   signup_page.formData.confirmPassword)
            \/ /\ outbox'[Len(outbox')].url = "/auth/change-password"
               /\ PasswordAccepted(profile_page.passwords.newPassword,
                                   profile_page.passwords.confirmPassword)
      ]_vars

\* a change-password request is awaited, and a later submission whose
\* confirmation differs was refused
C21_Witness ==
    /\ Len(outbox) = 1
    /\ outbox[1].url = "/auth/change-password"
    /\ Len(outbox[1].data.new_password) >= MinPasswordLength
    /\ profile_page.error = "New passwords do not match"
    /\ profile_page.passwords.newPassword # profile_page.passwords.confirmPassword

\* C22: after an upload request succeeds, the Upload page eventually shows
\* /report/<report_id> of the report that request returned; a failed
\* request schedules no redirect, and a report page is shown only for the
\* report of a request that succeeded.
C22_RedirectAfterSuccessOnly ==
    /\ \A id \in ReportIds :
           (success /\ result.report_id = id) ~> (location = ReportRoute(id))
    /\ [](location # "/upload" =>
              success /\ location = ReportRoute(result.report_id))
    /\ [](timer # NoTimer => success /\ timer = result.report_id)
    /\ [][(request # NoRequest /\ request' = NoRequest /\ ~success')
              => (timer' = timer /\ location' = location)]_vars

\* a request succeeded with report 2 and the page has navigated to it
C22_Witness ==
    /\ location = "/report/2"
    /\ success
    /\ result.report_id = 2
    /\ timer = NoTimer

\* the URL contains /auth/login, /auth/signup or /auth/google-login
ContainsAuthPath(url) ==
    \E path \in {"/auth/login", "/auth/signup", "/auth/google-login"} :
        \E k \in 0..(Len(UrlChars(url)) - Len(UrlChars(path))) :
            \A n \in 1..Len(UrlChars(path)) : UrlChars(url)[k + n] = UrlChars(path)[n]

C23_WitnessAuthRequest ==
    /\ settled.call = "login"
    /\ settled.status = 401
    /\ localStorage = StoredSession
    /\ location = "/dashboard"

\* C24: a request sent through the api instance while localStorage holds a
\* token carries Authorization: Bearer <that token>; a request sent while
\* no token is stored carries no Authorization header.
C24_AuthorizationHeader ==
    [][Len(wire') > Len(wire) =>
           LET headers == wire'[Len(wire')].headers
           IN  IF "token" \in DOMAIN localStorage
               THEN /\ "Authorization" \in DOMAIN headers
                    /\ headers["Authorization"].scheme = "Bearer"
                    /\ headers["Authorization"].credentials = localStorage["token"]
               ELSE "Authorization" \notin DOMAIN headers
      ]_vars

\* a request sent before the login carries no header, one sent after it
\* the token that the login stored, which is not the token loaded at mount
C24_Witness ==
    /\ Len(wire) = 2
    /\ "Authorization" \notin DOMAIN wire[1].headers
    /\ "Authorization" \in DOMAIN wire[2].headers
    /\ wire[2].headers["Authorization"] = Bearer("tokB")
    /\ localStorage["token"] = "tokB"

\* an older and a newer report are selected and they are different reports
TwoReportsSelected ==
    /\ compare_page.oldReportId # ""
    /\ compare_page.newReportId # ""
    /\ compare_page.oldReportId # compare_page.newReportId

\* C25: handleCompare sends a comparison request only when an older and a
\* newer report are selected and their ids differ; otherwise it sets an error
\* message, sends nothing and leaves loading and the displayed comparison
\* as they were.
C25_CompareOnlyTwoDifferentReports ==
    [][/\ handleCompare =>
            IF TwoReportsSelected
            THEN /\ compare_request'.old_report_id = compare_page.oldReportId
                 /\ compare_request'.new_report_id = compare_page.newReportId
            ELSE /\ compare_page'.error # ""
                 /\ compare_request' = compare_request
                 /\ compare_page'.loading = compare_page.loading
                 /\ compare_page'.comparison = compare_page.comparison
       /\ (compare_request' # compare_request /\ compare_request' # NoCompareRequest)
              => TwoReportsSelected
      ]_vars

\* with a comparison on display, the same report was chosen on both sides
\* and the button pressed: the message shows, the comparison stays
C25_Witness ==
    /\ compare_page.error = "Please select two different reports"
    /\ compare_page.oldReportId = compare_page.newReportId
    /\ compare_page.oldReportId # ""
    /\ compare_page.comparison # NullComparison
    /\ compare_request = NoCompareRequest
    /\ ~compare_page.loading

\* isAuthenticated: !!token
isAuthenticated == token # NullToken /\ token # ""

\* C26: once the stored session is loaded, after any sequence of completed
\* login, googleLogin, logout and signup calls the AuthContext token is
\* non-null exactly when localStorage holds a token, user is non-null exactly
\* when token is non-null, and isAuthenticated is true exactly in that case.
C26_SessionMatchesStorage ==
    ~auth_loading =>
        /\ (token # NullToken) <=> ("token" \in DOMAIN localStorage)
        /\ (user # NullUser) <=> (token # NullToken)
        /\ isAuthenticated <=> (token # NullToken)
        /\ token # NullToken => token = localStorage["token"]

\* a session was loaded from localStorage, replaced by a login, and ended
\* by a logout while a further login was awaited
C26_Witness ==
    /\ ~auth_loading
    /\ settled.call = "login"
    /\ settled.status = 200
    /\ token = NullToken
    /\ user = NullUser
    /\ localStorage = <<>>
    /\ Len(wire) = 1
    /\ wire[1].call = "login"
    /\ "Authorization" \in DOMAIN wire[1].headers

\* the session a completed googleLogin stored is the one in the context
C26_WitnessLoggedIn ==
    /\ settled.call = "googleLogin"
    /\ settled.status = 200
    /\ token = "tokB"
    /\ localStorage["token"] = "tokB"
    /\ user.user_id = "u2"

\* C27: a login or googleLogin call whose request fails, and any signup
\* call, leaves token, user and the localStorage items as they were and
\* returns {success: false, error} (for signup: its result) instead of
\* throwing.
C27_FailedCallChangesNothing ==
    [][(/\ Len(wire') < Len(wire)
        /\ \/ settled'.call \in {"login", "googleLogin"} /\ settled'.status # 200
           \/ settled'.call = "signup")
       => /\ token' = token
          /\ user' = user
          /\ localStorage' = localStorage
          /\ "returned" \in DOMAIN settled'
          /\ settled'.returned.success = (settled'.status = 200)
          /\ settled'.status # 200 => settled'.returned.error # Undefined
      ]_vars

\* a login was refused with 401 while a session was stored: the session is
\* still there and the call returned the detail of the response
C27_Witness ==
    /\ settled.call = "login"
    /\ settled.status = 401
    /\ settled.returned = [success |-> FALSE, error |-> "Could not validate credentials"]
    /\ token = "tokA"
    /\ localStorage = StoredSession

\* a defined number between 0 and 1
IsShare(x) == x.kind = "finite" /\ 0 <= x.num /\ x.num <= x.den

\* C28: for every summary the comparison returns, the no-overlap summary
\* with total_parameters = 0 included, each share the Compare page computes
\* as a count divided by total_parameters is a defined number between 0 and
\* 1, never NaN or Infinity.
C28_SharesAreDefined ==
    Compared => \A x \in ChartShares(comparison.summary) : IsShare(x)

\* C28, for the summaries with at least one compared parameter only
C28_SharesAreDefinedWithOverlap ==
    (Compared /\ comparison.summary.total_parameters > 0) =>
        \A x \in ChartShares(comparison.summary) : IsShare(x)

\* C29: in ReportDetails, once every outstanding fetchReport request has
\* completed (here: without an error), the report held in state is the one
\* fetched for the current reportId, in whatever order the responses arrived.
C29_ReportIsCurrent ==
    (fetches = <<>> /\ details_page.error = "") =>
        /\ details_page.report # NullReport
        /\ details_page.report.report_id = details_page.reportId

====
